---- MODULE Spec2Model ----
(***************************************************************************)
(* Model of pkg/service/rtcv2service.go: the signalling-v2 HTTP gateway.   *)
(* A request is handled by one goroutine; its position is pc[r], its       *)
(* http.ResponseWriter is w[r], the locals of the handler are idx[r] and   *)
(* loc[r], and calls[r] is the record of the collaborator calls it made    *)
(* (validator, room allocator, message router) with what they returned.    *)
(* gates[r] lists the checks of the request the handler has evaluated, in  *)
(* order.  svc holds the fields of the RTCv2Service, placement is the      *)
(* state of the topic layer (the node that hosts a participant) and inbox  *)
(* is the order in which relay RPCs reached the hosting nodes.             *)
(***************************************************************************)
EXTENDS Integers, Sequences, FiniteSets, TLC

VARIABLES pc, rq, w, idx, loc, calls, gates, svc, placement, inbox

vars == <<pc, rq, w, idx, loc, calls, gates, svc, placement, inbox>>

(***************************************************************************)
(* Bounds of the model.                                                    *)
(***************************************************************************)
MaxMsgs == 2

(***************************************************************************)
(* HTTP status codes used by the handlers.                                 *)
(***************************************************************************)
StatusOK == 200
StatusBadRequest == 400
StatusUnauthorized == 401
StatusNotFound == 404
StatusInternalServerError == 500

RequestIds == {"r1"}

cContentType == "application/x-protobuf"
ContentTypes == {cContentType, "application/json", "application/x-protobuf; charset=utf-8"}

errFragmentsInHTTP == "should not get fragments via HTTP request"
errUnsupportedContentType == "unsupported content-type"
errReadBody == "could not read request body"
errUnmarshal == "could not unmarshal request"
errMarshalGrants == "json: marshal grants failed"
errMarshalResponse == "proto: marshal failed"
ErrPermissionDenied == "permissions denied"
ErrNoRoomName == "no room name"
ErrIdentityEmpty == "identity cannot be empty"
ErrParticipantSidEmpty == "participant sid cannot be empty"
errInternal == "internal error"

(***************************************************************************)
(* Wire format: Signalv2WireMessage is a oneof of Envelope and Fragment    *)
(* (or nothing set); a client message is a oneof of which the handler only *)
(* interprets ConnectRequest.                                              *)
(***************************************************************************)
ClientMessageTypes == {"ConnectRequest", "PublisherSdp", "Unset"}
ClientMessages == [type : ClientMessageTypes]
FragmentPayloads == {"f1", "f2"}

RECURSIVE SeqsUpTo(_, _)
SeqsUpTo(S, n) ==
    IF n = 0 THEN {<<>>}
    ELSE LET shorter == SeqsUpTo(S, n - 1)
         IN  shorter \cup {Append(s, x) : s \in {t \in shorter : Len(t) = n - 1}, x \in S}

EnvelopeMessage(cms, sms) ==
    [variant |-> "Envelope", clientMessages |-> cms, serverMessages |-> sms, fragment |-> ""]
FragmentMessage(f) ==
    [variant |-> "Fragment", clientMessages |-> <<>>, serverMessages |-> <<>>, fragment |-> f]
EmptyWireMessage ==
    [variant |-> "None", clientMessages |-> <<>>, serverMessages |-> <<>>, fragment |-> ""]

RequestWireMessages ==
    {EnvelopeMessage(cms, <<>>) : cms \in SeqsUpTo(ClientMessages, MaxMsgs)}
      \cup {FragmentMessage(f) : f \in FragmentPayloads}
      \cup {EmptyWireMessage}

\* proto.Marshal / proto.Unmarshal: bytes are tagged with what they encode;
\* anything that is not the encoding of a wire message fails to decode.
Marshal(wm) == [kind |-> "proto", code |-> 0, err |-> "", msg |-> wm]
GarbageBytes == [kind |-> "garbage", code |-> 0, err |-> "", msg |-> EmptyWireMessage]
UnmarshalOk(bytes) == bytes.kind = "proto"
Unmarshal(bytes) == bytes.msg

RequestBodies == {Marshal(wm) : wm \in RequestWireMessages} \cup {GarbageBytes}

(***************************************************************************)
(* The auth context of a request: the grants that GetGrants finds (nil,    *)
(* without a video grant, or with one), what EnsureJoinPermission answers  *)
(* for them (an error, or the room of the video grant) and the identity of *)
(* the grants.  The participant id is the path value of the PATCH route.   *)
(***************************************************************************)
RoomNames == {"alpha", "beta"}
Identities == {"p1", "p2"}
ParticipantIds == {"PA_1", "PA_2"}

NoAuth == [hasClaims |-> FALSE, hasVideo |-> FALSE, joinErr |-> "", room |-> "", identity |-> ""]

AuthContexts ==
    {NoAuth}
      \cup [hasClaims : {TRUE}, hasVideo : {FALSE}, joinErr : {""}, room : {""},
            identity : Identities \cup {""}]
      \cup [hasClaims : {TRUE}, hasVideo : {TRUE}, joinErr : {ErrPermissionDenied}, room : {""},
            identity : Identities \cup {""}]
      \cup [hasClaims : {TRUE}, hasVideo : {TRUE}, joinErr : {""}, room : RoomNames \cup {""},
            identity : Identities \cup {""}]

PostRequests ==
    [endpoint : {"POST"}, contentType : ContentTypes, readOk : BOOLEAN, body : RequestBodies,
     auth : {NoAuth}, participantId : {""}]

PatchRequests ==
    [endpoint : {"PATCH"}, contentType : ContentTypes, readOk : BOOLEAN, body : RequestBodies,
     auth : AuthContexts, participantId : ParticipantIds \cup {""}]

Requests == PostRequests \cup PatchRequests

(***************************************************************************)
(* http.ResponseWriter: the first WriteHeader commits the status, a later  *)
(* one is ignored; Write commits 200 when nothing is committed yet; a      *)
(* header added after the commit is not sent.  headerCalls keeps every     *)
(* status code the handler passed to WriteHeader.                          *)
(***************************************************************************)
NewResponseWriter == [status |-> 0, body |-> <<>>, headerCalls |-> <<>>, contentType |-> ""]

WriteHeader(rw, code) ==
    [rw EXCEPT !.status = IF rw.status = 0 THEN code ELSE rw.status,
               !.headerCalls = Append(rw.headerCalls, code)]

Write(rw, bytes) ==
    [rw EXCEPT !.status = IF rw.status = 0 THEN StatusOK ELSE rw.status,
               !.body = Append(rw.body, bytes)]

AddContentType(rw, ct) ==
    [rw EXCEPT !.contentType = IF rw.status = 0 THEN ct ELSE rw.contentType]

JsonError(code, err) == [kind |-> "json", code |-> code, err |-> err, msg |-> EmptyWireMessage]

\* HandleErrorJson(w, r, status, err): status line, then the JSON error body;
\* a nil error is reported with the generic internal-error message.
HandleErrorJson(rw, code, err) ==
    Write(WriteHeader(rw, code), JsonError(code, IF err = "" THEN errInternal ELSE err))

(***************************************************************************)
(* The checks a handler makes before it calls a collaborator, as a list in *)
(* the order of the code: what is looked at, whether it fails for the      *)
(* request, and the status and error answered when it does.                *)
(***************************************************************************)
Gate(name, fail, code, err) == [name |-> name, fail |-> fail, code |-> code, err |-> err]

\* A content-type gate that accepts the media type with parameters.
ContentTypeGateLoose(q) ==
    Gate("Content-type",
         q.contentType \notin {cContentType, "application/x-protobuf; charset=utf-8"},
         StatusBadRequest, errUnsupportedContentType)

ContentTypeGate(q) ==
    Gate("Content-type", q.contentType # cContentType, StatusBadRequest,
         errUnsupportedContentType)

BodyGates(q) ==
    <<Gate("ReadAll", ~q.readOk, StatusBadRequest, errReadBody),
      Gate("Unmarshal", ~UnmarshalOk(q.body), StatusBadRequest, errUnmarshal)>>

PostGates(q) == <<ContentTypeGate(q)>> \o BodyGates(q)

\* The gates with the participant id checked before the identity.
PatchGatesSidFirst(q) ==
    <<ContentTypeGate(q),
      Gate("GetGrants", ~q.auth.hasClaims \/ ~q.auth.hasVideo, StatusUnauthorized,
           ErrPermissionDenied),
      Gate("EnsureJoinPermission", q.auth.joinErr # "", StatusUnauthorized, q.auth.joinErr),
      Gate("roomName", q.auth.room = "", StatusUnauthorized, ErrNoRoomName),
      Gate("participant_id", q.participantId = "", StatusBadRequest, ErrParticipantSidEmpty),
      Gate("participantIdentity", q.auth.identity = "", StatusUnauthorized, ErrIdentityEmpty)>>
      \o BodyGates(q)

\* The gates with fragments refused as in handlePost.
PatchGatesNoFragments(q) ==
    <<ContentTypeGate(q),
      Gate("GetGrants", ~q.auth.hasClaims \/ ~q.auth.hasVideo, StatusUnauthorized,
           ErrPermissionDenied),
      Gate("EnsureJoinPermission", q.auth.joinErr # "", StatusUnauthorized, q.auth.joinErr),
      Gate("roomName", q.auth.room = "", StatusUnauthorized, ErrNoRoomName),
      Gate("participantIdentity", q.auth.identity = "", StatusUnauthorized, ErrIdentityEmpty),
      Gate("participant_id", q.participantId = "", StatusBadRequest, ErrParticipantSidEmpty)>>
      \o BodyGates(q)
      \o <<Gate("Fragment", Unmarshal(q.body).variant = "Fragment", StatusBadRequest,
                errFragmentsInHTTP)>>

PatchGates(q) ==
    <<ContentTypeGate(q),
      Gate("GetGrants", ~q.auth.hasClaims \/ ~q.auth.hasVideo, StatusUnauthorized,
           ErrPermissionDenied),
      Gate("EnsureJoinPermission", q.auth.joinErr # "", StatusUnauthorized, q.auth.joinErr),
      Gate("roomName", q.auth.room = "", StatusUnauthorized, ErrNoRoomName),
      Gate("participantIdentity", q.auth.identity = "", StatusUnauthorized, ErrIdentityEmpty),
      Gate("participant_id", q.participantId = "", StatusBadRequest, ErrParticipantSidEmpty)>>
      \o BodyGates(q)

\* The first gate of the list that fails, 0 when all pass.
FirstFailing(gs) ==
    IF \E i \in DOMAIN gs : gs[i].fail
    THEN CHOOSE i \in DOMAIN gs : gs[i].fail /\ \A j \in 1..(i - 1) : ~gs[j].fail
    ELSE 0

\* The names of the gates evaluated: all up to the first failing one.
Evaluated(gs) ==
    LET k == IF FirstFailing(gs) = 0 THEN Len(gs) ELSE FirstFailing(gs)
    IN  [i \in 1..k |-> gs[i].name]

(***************************************************************************)
(* Answers of the collaborators.  An error is a string, "" is nil.         *)
(***************************************************************************)
ValidatorCodes == {400, 401, 403, 429}
ValidatorErrs == {"permission denied", "limit exceeded"}
PlacementErrs == {"no node available"}
RouterErrs == {"signal relay failed"}
ConnectResponses == {"resp1", "resp2"}

\* res, code, err of ValidateConnectRequest; res holds roomName, grants and
\* createRoomRequest.
ValidatorResults ==
    [ok : {TRUE}, code : {StatusOK}, err : {""}, roomName : RoomNames,
     grants : [identity : Identities], createRoomRequest : {"create"}]
      \cup [ok : {FALSE}, code : ValidatorCodes, err : ValidatorErrs, roomName : {""},
            grants : [identity : {""}], createRoomRequest : {""}]

RouterResults ==
    [ok : {TRUE}, err : {""}, connectResponse : ConnectResponses]
      \cup [ok : {FALSE}, err : RouterErrs, connectResponse : {""}]

GrantsJson(grants) == <<"json", grants.identity>>

NoRscr == [grantsJson |-> <<>>, createRoom |-> "", connectRequest |-> [type |-> "Unset"]]
NoLocals == [roomName |-> "", participantIdentity |-> "", rscr |-> NoRscr,
             code |-> 0, err |-> ""]

\* validateInternal returning the zero room name on success as well.
validateInternalNoRoom(res, marshalOk, connectRequest) ==
    IF res.err # "" THEN [NoLocals EXCEPT !.code = res.code, !.err = res.err]
    ELSE IF ~marshalOk
         THEN [NoLocals EXCEPT !.code = StatusInternalServerError, !.err = errMarshalGrants]
         ELSE [roomName |-> "",
               participantIdentity |-> res.grants.identity,
               rscr |-> [grantsJson |-> GrantsJson(res.grants),
                         createRoom |-> res.createRoomRequest,
                         connectRequest |-> connectRequest],
               code |-> res.code,
               err |-> ""]

\* validateInternal: the validator's failure is returned as it is; a grant
\* set that does not serialise is a 500; otherwise the room name, the
\* identity of the grants and the relay request.
validateInternal(res, marshalOk, connectRequest) ==
    IF res.err # "" THEN [NoLocals EXCEPT !.code = res.code, !.err = res.err]
    ELSE IF ~marshalOk
         THEN [NoLocals EXCEPT !.code = StatusInternalServerError, !.err = errMarshalGrants]
         ELSE [roomName |-> res.roomName,
               participantIdentity |-> res.grants.identity,
               rscr |-> [grantsJson |-> GrantsJson(res.grants),
                         createRoom |-> res.createRoomRequest,
                         connectRequest |-> connectRequest],
               code |-> res.code,
               err |-> ""]

\* One entry of calls[r].  For ValidateConnectRequest room and identity are
\* what it returned, for SelectRoomNode and HandleParticipantConnectRequest
\* they are the arguments passed.
Call(op, i, room, identity, rscr, ok, code, err, resp) ==
    [op |-> op, idx |-> i, room |-> room, identity |-> identity, rscr |-> rscr,
     ok |-> ok, code |-> code, err |-> err, resp |-> resp]

UnknownMessageTypeErr(clientMessage) ==
    CASE clientMessage.type = "PublisherSdp" ->
           "unknown message type, message: *livekit.Signalv2ClientMessage_PublisherSdp"
      [] clientMessage.type = "Unset" -> "unknown message type, message: <nil>"
      [] OTHER -> "unknown message type, message: *livekit.Signalv2ClientMessage_ConnectRequest"

\* A default branch that skips the message without an error.
UnknownMessageIgnored(rw, clientMessage) == rw

\* The default branch of the switch over the client message.
UnknownMessageResponse(rw, clientMessage) ==
    HandleErrorJson(rw, StatusBadRequest, UnknownMessageTypeErr(clientMessage))

\* A Fragment branch that answers with the status of a server fault.
FragmentResponseInternal(rw) ==
    HandleErrorJson(rw, StatusInternalServerError, errFragmentsInHTTP)

\* The Fragment branch of the switch over the wire message.
FragmentResponse(rw) == HandleErrorJson(rw, StatusBadRequest, errFragmentsInHTTP)

\* The wire message built around the router's connect response.
ConnectResponseMessage(resp) ==
    EnvelopeMessage(<<>>, <<[type |-> "ConnectResponse", connectResponse |-> resp]>>)

NoRequest == [endpoint |-> "", contentType |-> "", readOk |-> FALSE, body |-> GarbageBytes,
              auth |-> NoAuth, participantId |-> ""]

\* The fields NewRTCv2Service sets: the limits and the collaborator handles.
NewRTCv2Service ==
    [limits |-> "config.Limit", router |-> "router", roomAllocator |-> "roomAllocator",
     topicFormatter |-> "topicFormatter",
     signalv2ParticipantClient |-> "signalv2ParticipantClient"]

Nodes == {"n1", "n2"}
Participants == RoomNames \X Identities
InitialPlacement == [p \in Participants |-> "n1"]

Init ==
    /\ pc = [r \in RequestIds |-> "idle"]
    /\ rq = [r \in RequestIds |-> NoRequest]
    /\ w = [r \in RequestIds |-> NewResponseWriter]
    /\ idx = [r \in RequestIds |-> 0]
    /\ loc = [r \in RequestIds |-> NoLocals]
    /\ calls = [r \in RequestIds |-> <<>>]
    /\ gates = [r \in RequestIds |-> <<>>]
    /\ svc = NewRTCv2Service
    /\ placement = InitialPlacement
    /\ inbox = <<>>

ClientMessagesOf(r) == Unmarshal(rq[r].body).clientMessages

\* Locals kept in one place for all requests: a request sees what another
\* request stored there.
LocalsShared(r) ==
    IF \E s \in DOMAIN loc \ {r} : loc[s] # NoLocals
    THEN loc[CHOOSE s \in DOMAIN loc \ {r} : loc[s] # NoLocals]
    ELSE loc[r]

\* roomName, participantIdentity and rscr are local variables of the
\* handler: each request reads its own.
Locals(r) == loc[r]

Fail(r, code, err) ==
    /\ w' = [w EXCEPT ![r] = HandleErrorJson(w[r], code, err)]
    /\ pc' = [pc EXCEPT ![r] = "done"]

\* What no handler changes: the service and the topic layer.
Environment == <<svc, placement>>

\* The mux routes the request to the handler of its method and path.
Route(q) == IF q.endpoint = "POST" THEN "post" ELSE "patch"

\* A POST /rtc/v2 or PATCH /rtc/v2/{participant_id} request reaches its
\* handler.
Arrive(r) ==
    /\ pc[r] = "idle"
    /\ \E q \in Requests :
         /\ rq' = [rq EXCEPT ![r] = q]
         /\ pc' = [pc EXCEPT ![r] = Route(q)]
    /\ UNCHANGED <<w, idx, loc, calls, gates, inbox, Environment>>

\* handlePost up to the switch over the wire message: content type, body,
\* unmarshal, and the Fragment branch.
PostDecode(r) ==
    /\ pc[r] = "post"
    /\ UNCHANGED <<rq, loc, calls, inbox, Environment>>
    /\ gates' = [gates EXCEPT ![r] = Evaluated(PostGates(rq[r]))]
    /\ IF FirstFailing(PostGates(rq[r])) # 0
       THEN LET failed == PostGates(rq[r])[FirstFailing(PostGates(rq[r]))]
            IN  Fail(r, failed.code, failed.err) /\ UNCHANGED idx
       ELSE LET wireMessage == Unmarshal(rq[r].body)
            IN  CASE wireMessage.variant = "Envelope" ->
                       /\ pc' = [pc EXCEPT ![r] = "loop"]
                       /\ idx' = [idx EXCEPT ![r] = 1]
                       /\ UNCHANGED w
                  [] wireMessage.variant = "Fragment" ->
                       /\ w' = [w EXCEPT ![r] = FragmentResponse(w[r])]
                       /\ pc' = [pc EXCEPT ![r] = "done"]
                       /\ UNCHANGED idx
                  [] OTHER ->
                       /\ pc' = [pc EXCEPT ![r] = "ok"]
                       /\ UNCHANGED <<w, idx>>

\* The head of the loop over the client messages and the switch over the
\* message: a ConnectRequest goes to the validator, any other message gets
\* the unknown-message error and the loop goes on.
PostLoop(r) ==
    /\ pc[r] = "loop"
    /\ UNCHANGED <<rq, loc, calls, gates, inbox, Environment>>
    /\ IF idx[r] > Len(ClientMessagesOf(r))
       THEN /\ pc' = [pc EXCEPT ![r] = "ok"]
            /\ UNCHANGED <<w, idx>>
       ELSE LET innerMsg == ClientMessagesOf(r)[idx[r]]
            IN  IF innerMsg.type = "ConnectRequest"
                THEN /\ pc' = [pc EXCEPT ![r] = "validate"]
                     /\ UNCHANGED <<w, idx>>
                ELSE /\ w' = [w EXCEPT ![r] = UnknownMessageResponse(w[r], innerMsg)]
                     /\ idx' = [idx EXCEPT ![r] = idx[r] + 1]
                     /\ UNCHANGED pc

\* The call of validateInternal and the check of its error.
PostValidate(r) ==
    /\ pc[r] = "validate"
    /\ UNCHANGED <<rq, idx, gates, inbox, Environment>>
    /\ \E res \in ValidatorResults :
         \E marshalOk \in (IF res.ok THEN BOOLEAN ELSE {TRUE}) :
           LET v == validateInternal(res, marshalOk, ClientMessagesOf(r)[idx[r]])
               validated == Call("ValidateConnectRequest", idx[r], res.roomName,
                                 res.grants.identity, NoRscr, res.ok, res.code, res.err, "")
               marshalled == Call("json.Marshal", idx[r], "", "", NoRscr, marshalOk, 0,
                                  IF marshalOk THEN "" ELSE errMarshalGrants, "")
           IN  /\ calls' = [calls EXCEPT ![r] =
                              IF res.ok THEN calls[r] \o <<validated, marshalled>>
                              ELSE Append(calls[r], validated)]
               /\ IF v.err # ""
                  THEN Fail(r, v.code, v.err) /\ UNCHANGED loc
                  ELSE /\ loc' = [loc EXCEPT ![r] = v]
                       /\ pc' = [pc EXCEPT ![r] = "select"]
                       /\ UNCHANGED w

\* roomAllocator.SelectRoomNode for the validated room.
PostSelectRoomNode(r) ==
    /\ pc[r] = "select"
    /\ UNCHANGED <<rq, idx, loc, gates, inbox, Environment>>
    /\ \E err \in {""} \cup PlacementErrs :
         /\ calls' = [calls EXCEPT ![r] =
                        Append(calls[r], Call("SelectRoomNode", idx[r], Locals(r).roomName, "",
                                              NoRscr, err = "", 0, err, ""))]
         /\ IF err # ""
            THEN Fail(r, StatusInternalServerError, err)
            ELSE pc' = [pc EXCEPT ![r] = "route"] /\ UNCHANGED w

\* router.HandleParticipantConnectRequest, then the response is marshalled
\* and written and the loop goes on with the next client message.
PostRoute(r) ==
    /\ pc[r] = "route"
    /\ UNCHANGED <<rq, loc, gates, inbox, Environment>>
    /\ \E out \in RouterResults :
         \E encodeOk \in (IF out.ok THEN BOOLEAN ELSE {TRUE}) :
           LET routed == Call("HandleParticipantConnectRequest", idx[r],
                              Locals(r).roomName, Locals(r).participantIdentity,
                              Locals(r).rscr, out.ok, 0, out.err, out.connectResponse)
               encoded == Call("proto.Marshal", idx[r], "", "", NoRscr, encodeOk, 0,
                               IF encodeOk THEN "" ELSE errMarshalResponse, "")
           IN  /\ calls' = [calls EXCEPT ![r] =
                              IF out.ok THEN calls[r] \o <<routed, encoded>>
                              ELSE Append(calls[r], routed)]
               /\ IF ~out.ok
                  THEN Fail(r, StatusInternalServerError, out.err) /\ UNCHANGED idx
                  ELSE IF ~encodeOk
                  THEN Fail(r, StatusInternalServerError, errMarshalResponse) /\ UNCHANGED idx
                  ELSE /\ w' = [w EXCEPT ![r] =
                                  Write(AddContentType(w[r], cContentType),
                                        Marshal(ConnectResponseMessage(out.connectResponse)))]
                       /\ idx' = [idx EXCEPT ![r] = idx[r] + 1]
                       /\ pc' = [pc EXCEPT ![r] = "loop"]

\* The last statement of handlePost: w.WriteHeader(http.StatusOK).
PostWriteOK(r) ==
    /\ pc[r] = "ok"
    /\ w' = [w EXCEPT ![r] = WriteHeader(w[r], StatusOK)]
    /\ pc' = [pc EXCEPT ![r] = "done"]
    /\ UNCHANGED <<rq, idx, loc, calls, gates, inbox, Environment>>

(***************************************************************************)
(* handleParticipantPatch.                                                 *)
(***************************************************************************)
\* topicFormatter.ParticipantTopic: the key that addresses the node that
\* hosts the participant in the topic layer's present state.
ParticipantTopic(pl, roomName, identity) ==
    [room |-> roomName, identity |-> identity,
     node |-> IF <<roomName, identity>> \in DOMAIN pl THEN pl[<<roomName, identity>>]
              ELSE "none"]

\* A topic resolved once, when the service was built.
ResolveTopicRemembered(pl, l) ==
    ParticipantTopic(InitialPlacement, l.roomName, l.participantIdentity)

\* The topic argument of the RPC: the topic formatter is asked in the call,
\* for the room name and the identity of the request.
ResolveTopic(pl, l) == ParticipantTopic(pl, l.roomName, l.participantIdentity)

\* Locals whose identity is taken from the path of the request.
PatchLocalsFromPath(q) ==
    [NoLocals EXCEPT !.roomName = q.auth.room, !.participantIdentity = q.participantId]

\* roomName is what EnsureJoinPermission returned and participantIdentity
\* is the identity of the grants.
PatchLocals(q) ==
    [NoLocals EXCEPT !.roomName = q.auth.room, !.participantIdentity = q.auth.identity]

\* A relay request whose participant id is the identity.
RelayRequestIdentityAsId(l, q) ==
    [room |-> l.roomName, participantIdentity |-> l.participantIdentity,
     participantId |-> l.participantIdentity, wireMessage |-> Unmarshal(q.body)]

\* The rpc.RelaySignalv2ParticipantRequest of the call.
RelayRequest(l, q) ==
    [room |-> l.roomName, participantIdentity |-> l.participantIdentity,
     participantId |-> q.participantId, wireMessage |-> Unmarshal(q.body)]

\* What the hosting node answers.
ResponseWireMessages ==
    {EnvelopeMessage(<<>>, <<[type |-> "SubscriberSdp", connectResponse |-> ""]>>),
     FragmentMessage("f1")}
PsrpcCodes == {"not_found", "invalid_argument", "unavailable"}
RpcErrs == {"participant not found", "connection reset"}

\* res, err of RelaySignalv2Participant: a response, a psrpc.Error with its
\* code, or an error that is not a psrpc.Error.
RpcResults ==
    [ok : {TRUE}, typed : {FALSE}, psrpcCode : {""}, err : {""},
     wireMessage : ResponseWireMessages]
      \cup [ok : {FALSE}, typed : {TRUE}, psrpcCode : PsrpcCodes, err : RpcErrs,
            wireMessage : {EmptyWireMessage}]
      \cup [ok : {FALSE}, typed : {FALSE}, psrpcCode : {""}, err : RpcErrs,
            wireMessage : {EmptyWireMessage}]

\* Every psrpc.Error answered as a server fault.
PsrpcStatusInternal(psrpcCode) == StatusInternalServerError

\* The status answered for a psrpc.Error.
PsrpcStatus(psrpcCode) ==
    CASE psrpcCode = "not_found" -> StatusNotFound
      [] psrpcCode = "invalid_argument" -> StatusBadRequest
      [] OTHER -> StatusInternalServerError

\* The error branch after the RPC: a psrpc.Error is answered with the
\* status of its code and its text, any other error with 500 and a nil
\* error.
RpcErrorResponse(rw, out) ==
    IF out.typed
    THEN HandleErrorJson(rw, PsrpcStatus(out.psrpcCode), out.err)
    ELSE HandleErrorJson(rw, StatusInternalServerError, "")

\* A handler that makes the RPC again when it failed.
AfterRelayRetry(out) == IF out.ok THEN "done" ELSE "relay"

\* Where the handler goes after the RPC and its response: it returns,
\* whatever the RPC answered.
AfterRelay(out) == "done"

\* handleParticipantPatch up to the RPC: content type, grants, join
\* permission, room name, identity, participant id, body, unmarshal.
PatchAuthorize(r) ==
    /\ pc[r] = "patch"
    /\ UNCHANGED <<rq, idx, calls, inbox, Environment>>
    /\ gates' = [gates EXCEPT ![r] = Evaluated(PatchGates(rq[r]))]
    /\ IF FirstFailing(PatchGates(rq[r])) # 0
       THEN LET failed == PatchGates(rq[r])[FirstFailing(PatchGates(rq[r]))]
            IN  Fail(r, failed.code, failed.err) /\ UNCHANGED loc
       ELSE /\ loc' = [loc EXCEPT ![r] = PatchLocals(rq[r])]
            /\ pc' = [pc EXCEPT ![r] = "relay"]
            /\ UNCHANGED w

\* The topic is resolved, the RPC is made and its answer is turned into the
\* response: the mapped error, or the marshalled wire message and 200.
PatchRelay(r) ==
    /\ pc[r] = "relay"
    /\ UNCHANGED <<rq, idx, loc, gates, Environment>>
    /\ \E out \in RpcResults :
         \E encodeOk \in (IF out.ok THEN BOOLEAN ELSE {TRUE}) :
           LET topic == ResolveTopic(placement, Locals(r))
               request == RelayRequest(Locals(r), rq[r])
               resolved == Call("ParticipantTopic", 0, Locals(r).roomName,
                                Locals(r).participantIdentity, NoRscr, TRUE, 0, "", topic)
               relayed == Call("RelaySignalv2Participant", 0, request.room,
                               request.participantIdentity,
                               [topic |-> topic, request |-> request],
                               out.ok, 0, out.err, out)
               encoded == Call("proto.Marshal", 0, "", "", NoRscr, encodeOk, 0,
                               IF encodeOk THEN "" ELSE errMarshalResponse, "")
           IN  /\ calls' = [calls EXCEPT ![r] =
                              IF out.ok THEN calls[r] \o <<resolved, relayed, encoded>>
                              ELSE calls[r] \o <<resolved, relayed>>]
               /\ inbox' = Append(inbox, [from |-> r, topic |-> topic, request |-> request])
               /\ pc' = [pc EXCEPT ![r] = AfterRelay(out)]
               /\ w' = [w EXCEPT ![r] =
                          IF ~out.ok THEN RpcErrorResponse(w[r], out)
                          ELSE IF ~encodeOk
                          THEN HandleErrorJson(w[r], StatusInternalServerError,
                                               errMarshalResponse)
                          ELSE WriteHeader(Write(AddContentType(w[r], cContentType),
                                                 Marshal(out.wireMessage)),
                                           StatusOK)]

Next ==
    \E r \in RequestIds :
      \/ Arrive(r)
      \/ PostDecode(r)
      \/ PostLoop(r)
      \/ PostValidate(r)
      \/ PostSelectRoomNode(r)
      \/ PostRoute(r)
      \/ PostWriteOK(r)
      \/ PatchAuthorize(r)
      \/ PatchRelay(r)

Spec == Init /\ [][Next]_vars

(***************************************************************************)
(* Two requests handled concurrently, each by its own goroutine, while the *)
(* topic layer may move a participant to another node.  The requests are   *)
(* connects and participant actions that pass the gates.                   *)
(***************************************************************************)
MultiRequestIds == {"r1", "r2"}

MultiAuth ==
    [hasClaims : {TRUE}, hasVideo : {TRUE}, joinErr : {""}, room : {"alpha"},
     identity : Identities]

MultiRequests ==
    [endpoint : {"POST"}, contentType : {cContentType}, readOk : {TRUE},
     body : {Marshal(EnvelopeMessage(<<[type |-> "ConnectRequest"]>>, <<>>))},
     auth : {NoAuth}, participantId : {""}]
      \cup [endpoint : {"PATCH"}, contentType : {cContentType}, readOk : {TRUE},
            body : {Marshal(EnvelopeMessage(<<[type |-> "PublisherSdp"]>>, <<>>)),
                    Marshal(FragmentMessage("f1"))},
            auth : MultiAuth, participantId : ParticipantIds]

InitMulti ==
    /\ pc = [r \in MultiRequestIds |-> "idle"]
    /\ rq = [r \in MultiRequestIds |-> NoRequest]
    /\ w = [r \in MultiRequestIds |-> NewResponseWriter]
    /\ idx = [r \in MultiRequestIds |-> 0]
    /\ loc = [r \in MultiRequestIds |-> NoLocals]
    /\ calls = [r \in MultiRequestIds |-> <<>>]
    /\ gates = [r \in MultiRequestIds |-> <<>>]
    /\ svc = NewRTCv2Service
    /\ placement = InitialPlacement
    /\ inbox = <<>>

ArriveMulti(r) ==
    /\ pc[r] = "idle"
    /\ \E q \in MultiRequests :
         /\ rq' = [rq EXCEPT ![r] = q]
         /\ pc' = [pc EXCEPT ![r] = Route(q)]
    /\ UNCHANGED <<w, idx, loc, calls, gates, inbox, Environment>>

\* The topic layer moves a participant of room alpha to the other node.
Migrate(p) ==
    /\ p[1] = "alpha"
    /\ placement[p] = "n1"
    /\ placement' = [placement EXCEPT ![p] = "n2"]
    /\ UNCHANGED <<pc, rq, w, idx, loc, calls, gates, svc, inbox>>

NextMulti ==
    \/ \E r \in MultiRequestIds :
         \/ ArriveMulti(r)
         \/ PostDecode(r)
         \/ PostLoop(r)
         \/ PostValidate(r)
         \/ PostSelectRoomNode(r)
         \/ PostRoute(r)
         \/ PostWriteOK(r)
         \/ PatchAuthorize(r)
         \/ PatchRelay(r)
    \/ \E p \in Participants : Migrate(p)

SpecMulti == InitMulti /\ [][NextMulti]_vars

(***************************************************************************)
(* Vocabulary of the properties.                                           *)
(***************************************************************************)
Done(r) == pc[r] = "done"
Decoded(r) ==
    /\ pc[r] \notin {"idle", "post"}
    /\ rq[r].endpoint = "POST"
    /\ rq[r].contentType = cContentType
    /\ rq[r].readOk
    /\ UnmarshalOk(rq[r].body)
JsonChunks(r) == {i \in DOMAIN w[r].body : w[r].body[i].kind = "json"}
ProtoChunks(r) == {i \in DOMAIN w[r].body : w[r].body[i].kind = "proto"}
CallsOf(r, op) == {i \in DOMAIN calls[r] : calls[r][i].op = op}
ValidatorCalls(r) == CallsOf(r, "ValidateConnectRequest")
PlacementCalls(r) == CallsOf(r, "SelectRoomNode")
RouterCalls(r) == CallsOf(r, "HandleParticipantConnectRequest")
CollaboratorCalls(r) == ValidatorCalls(r) \cup PlacementCalls(r) \cup RouterCalls(r)
HasConnectResponse(bytes) ==
    /\ bytes.kind = "proto"
    /\ \E k \in DOMAIN bytes.msg.serverMessages :
         bytes.msg.serverMessages[k].type = "ConnectResponse"

\* C1: the response of handlePost is committed once: a failure leaves one
\* status and one JSON error body and nothing else, and no error body
\* follows a success body.
C1_CommittedOnce ==
    \A r \in RequestIds :
      Done(r) =>
        /\ Cardinality(JsonChunks(r)) <= 1
        /\ JsonChunks(r) # {} =>
             /\ Len(w[r].body) = 1
             /\ w[r].status = w[r].body[1].code
        /\ \A i \in ProtoChunks(r) : \A j \in JsonChunks(r) : j < i

\* C2: once a client message of the envelope has produced an error, the
\* request makes no further validator, placement or router call and writes
\* nothing more to the response body.
C2_StopsAtFirstFailure ==
    [][\A r \in RequestIds :
         JsonChunks(r) # {} =>
           /\ calls'[r] = calls[r]
           /\ w'[r].body = w[r].body]_vars

\* C3: per request the router is invoked at most once and at most one
\* ConnectResponse wire message is written to the body.
C3_AtMostOneConnect ==
    \A r \in RequestIds :
      /\ Cardinality(RouterCalls(r)) <= 1
      /\ Cardinality({i \in DOMAIN w[r].body : HasConnectResponse(w[r].body[i])}) <= 1

\* C4: for every ConnectRequest the calls are validator, then placement,
\* then router: placement only after the validator succeeded for that
\* message and with the room name it returned, the router only after
\* placement succeeded for that message and with the validator's room name
\* and the identity of the validator's grants.
C4_CallOrder ==
    \A r \in RequestIds :
      \A i \in DOMAIN calls[r] :
        LET c == calls[r][i]
            validated(j) ==
              /\ j \in ValidatorCalls(r)
              /\ calls[r][j].idx = c.idx
              /\ calls[r][j].ok
            placed(k) ==
              /\ k \in PlacementCalls(r)
              /\ calls[r][k].idx = c.idx
              /\ calls[r][k].ok
        IN  /\ c.op = "SelectRoomNode" =>
                 \E j \in 1..(i - 1) :
                   /\ validated(j)
                   /\ c.room = calls[r][j].room
                   /\ \A m \in (j + 1)..(i - 1) : m \notin CollaboratorCalls(r)
            /\ c.op = "HandleParticipantConnectRequest" =>
                 \E j \in 1..(i - 1) : \E k \in (j + 1)..(i - 1) :
                   /\ validated(j)
                   /\ placed(k)
                   /\ c.room = calls[r][j].room
                   /\ c.room = calls[r][k].room
                   /\ c.identity = calls[r][j].identity
                   /\ \A m \in (k + 1)..(i - 1) : m \notin CollaboratorCalls(r)

\* C4 witness: a finished request whose ConnectRequest went through the
\* validator, placement and the router.
C4_Witness ==
    \E r \in RequestIds :
      /\ Done(r)
      /\ \E i \in RouterCalls(r) : calls[r][i].ok /\ calls[r][i].room = "beta"

\* C5: when the validator fails for a ConnectRequest, the response is the
\* status code and the error the validator returned, and neither placement
\* nor the router is invoked for that message.
C5_ValidatorFailureVerbatim ==
    \A r \in RequestIds :
      Done(r) =>
        \A i \in ValidatorCalls(r) :
          ~calls[r][i].ok =>
            /\ w[r].status = calls[r][i].code
            /\ w[r].body = <<JsonError(calls[r][i].code, calls[r][i].err)>>
            /\ \A k \in PlacementCalls(r) \cup RouterCalls(r) :
                 calls[r][k].idx # calls[r][i].idx

\* C6: when placement fails the response is 500 and the router is never
\* invoked for the request; when the router fails the response is 500.
C6_PlacementFailureIs500 ==
    \A r \in RequestIds :
      Done(r) =>
        /\ \A i \in PlacementCalls(r) :
             ~calls[r][i].ok =>
               /\ w[r].status = StatusInternalServerError
               /\ RouterCalls(r) = {}
        /\ \A i \in RouterCalls(r) :
             ~calls[r][i].ok => w[r].status = StatusInternalServerError

\* C7: when the validator, placement and the router succeed for a
\* ConnectRequest (and the response encodes), the response is 200 and its
\* body is one wire message, an Envelope with exactly one server message,
\* the ConnectResponse the router returned.
C7_SuccessfulConnect ==
    \A r \in RequestIds :
      Done(r) =>
        \A i \in RouterCalls(r) :
          (/\ calls[r][i].ok
           /\ i + 1 \in CallsOf(r, "proto.Marshal")
           /\ calls[r][i + 1].ok) =>
            /\ w[r].status = StatusOK
            /\ w[r].body = <<Marshal(EnvelopeMessage(<<>>,
                 <<[type |-> "ConnectResponse", connectResponse |-> calls[r][i].resp]>>))>>

\* C8: for every decodable request body a 200 response carries a
\* ConnectResponse in its body.
C8_OkHasConnectResponse ==
    \A r \in RequestIds :
      (Done(r) /\ Decoded(r) /\ w[r].status = StatusOK) =>
        \E i \in DOMAIN w[r].body : HasConnectResponse(w[r].body[i])

\* C9: a decoded wire message whose variant is Fragment is answered with
\* 400 and the fragments error, whatever the fragment holds, and no
\* validator, placement or router call is made.
C9_FragmentRejected ==
    \A r \in RequestIds :
      (Decoded(r) /\ Unmarshal(rq[r].body).variant = "Fragment") =>
        /\ Done(r)
        /\ w[r].status = 400
        /\ w[r].headerCalls = <<400>>
        /\ w[r].body = <<JsonError(400, "should not get fragments via HTTP request")>>
        /\ calls[r] = <<>>

\* C9 witness: a request carrying the fragment "f2" has been answered.
C9_Witness ==
    \E r \in RequestIds :
      /\ Done(r)
      /\ Decoded(r)
      /\ Unmarshal(rq[r].body) = FragmentMessage("f2")
      /\ w[r].status = 400

\* The Go type that the unknown-message error prints for a client message.
NamedIn(err, type) ==
    \/ type = "PublisherSdp" /\ err =
         "unknown message type, message: *livekit.Signalv2ClientMessage_PublisherSdp"
    \/ type = "Unset" /\ err = "unknown message type, message: <nil>"

SoleUnknownMessage(r) ==
    /\ Decoded(r)
    /\ Unmarshal(rq[r].body).variant = "Envelope"
    /\ Len(ClientMessagesOf(r)) = 1
    /\ ClientMessagesOf(r)[1].type # "ConnectRequest"

\* C10: an envelope whose only client message is not a ConnectRequest is
\* answered with status 400 and an error naming the message type, and no
\* validator, placement or router call is made.
C10_SoleUnknownMessage ==
    \A r \in RequestIds :
      (Done(r) /\ SoleUnknownMessage(r)) =>
        /\ w[r].status = 400
        /\ Len(w[r].body) = 1
        /\ w[r].body[1].kind = "json"
        /\ w[r].body[1].code = 400
        /\ NamedIn(w[r].body[1].err, ClientMessagesOf(r)[1].type)
        /\ calls[r] = <<>>

\* C10 witness: a request whose only client message is a PublisherSdp has
\* been answered.
C10_Witness ==
    \E r \in RequestIds :
      /\ Done(r)
      /\ SoleUnknownMessage(r)
      /\ ClientMessagesOf(r)[1].type = "PublisherSdp"
      /\ w[r].body # <<>>

(***************************************************************************)
(* Properties of the participant endpoint and of both endpoints.           *)
(***************************************************************************)
Handled(r) == pc[r] \notin {"idle", "post", "patch"}
IsPatch(r) == rq[r].endpoint = "PATCH"
TopicCalls(r) == CallsOf(r, "ParticipantTopic")
RelayCalls(r) == CallsOf(r, "RelaySignalv2Participant")
ArrivalsFrom(r) == {i \in DOMAIN inbox : inbox[i].from = r}

\* C11: on both endpoints a request whose Content-type is not exactly
\* application/x-protobuf is answered with 400 and nothing else of the
\* request has been looked at: no body read or decode, no auth check, no
\* collaborator call.
C11_ContentTypeFirst ==
    \A r \in RequestIds :
      (Handled(r) /\ rq[r].contentType # "application/x-protobuf") =>
        /\ Done(r)
        /\ w[r].status = 400
        /\ w[r].body = <<JsonError(400, "unsupported content-type")>>
        /\ gates[r] = <<"Content-type">>
        /\ calls[r] = <<>>
        /\ ArrivalsFrom(r) = {}

\* C11 witness: an otherwise valid PATCH with a parameterised content type
\* has been answered.
C11_Witness ==
    \E r \in RequestIds :
      /\ Done(r)
      /\ IsPatch(r)
      /\ rq[r].contentType = "application/x-protobuf; charset=utf-8"
      /\ rq[r].auth.room = "alpha" /\ rq[r].auth.identity = "p1"
      /\ rq[r].participantId = "PA_1" /\ rq[r].readOk /\ UnmarshalOk(rq[r].body)
      /\ w[r].status = 400

\* The gate the claim names first among the violated ones, as <<status,
\* errors that may be reported>>; <<0, {}>> when none is violated.
FirstViolated(q) ==
    IF ~q.auth.hasClaims \/ ~q.auth.hasVideo THEN <<401, {"permissions denied"}>>
    ELSE IF q.auth.joinErr # "" THEN <<401, {q.auth.joinErr}>>
    ELSE IF q.auth.room = "" THEN <<401, {"no room name"}>>
    ELSE IF q.auth.identity = "" THEN <<401, {"identity cannot be empty"}>>
    ELSE IF q.participantId = "" THEN <<400, {"participant sid cannot be empty"}>>
    ELSE IF ~q.readOk \/ ~UnmarshalOk(q.body)
    THEN <<400, {"could not read request body", "could not unmarshal request"}>>
    ELSE <<0, {}>>

\* C12: on the participant endpoint the response reports the first violated
\* gate in the order grants, join permission, room name, identity,
\* participant id, body.
C12_GateOrder ==
    \A r \in RequestIds :
      (/\ Done(r)
       /\ IsPatch(r)
       /\ rq[r].contentType = cContentType
       /\ FirstViolated(rq[r])[1] # 0) =>
        /\ w[r].status = FirstViolated(rq[r])[1]
        /\ Len(w[r].body) = 1
        /\ w[r].body[1].kind = "json"
        /\ w[r].body[1].code = FirstViolated(rq[r])[1]
        /\ w[r].body[1].err \in FirstViolated(rq[r])[2]
        /\ RelayCalls(r) = {}

\* C12 witness: a request with an empty identity and an empty participant
\* id has been answered.
C12_Witness ==
    \E r \in RequestIds :
      /\ Done(r)
      /\ IsPatch(r)
      /\ rq[r].contentType = cContentType
      /\ rq[r].auth.joinErr = "" /\ rq[r].auth.room = "beta"
      /\ rq[r].auth.identity = "" /\ rq[r].participantId = ""
      /\ w[r].status = 401

\* C13: a failed relay RPC is answered with 404 for NotFound, 400 for
\* InvalidArgument and 500 for any other code or an untyped error, and
\* never with 200 or a wire-message body.
C13_RpcErrorMapping ==
    \A r \in RequestIds :
      Done(r) =>
        \A i \in RelayCalls(r) :
          ~calls[r][i].ok =>
            /\ w[r].status =
                 IF calls[r][i].resp.typed /\ calls[r][i].resp.psrpcCode = "not_found"
                 THEN 404
                 ELSE IF calls[r][i].resp.typed
                         /\ calls[r][i].resp.psrpcCode = "invalid_argument"
                 THEN 400
                 ELSE 500
            /\ ProtoChunks(r) = {}

\* C13 witness: a relay that failed with NotFound has been answered.
C13_Witness ==
    \E r \in RequestIds :
      /\ Done(r)
      /\ \E i \in RelayCalls(r) :
           /\ ~calls[r][i].ok
           /\ calls[r][i].resp.typed
           /\ calls[r][i].resp.psrpcCode = "not_found"
      /\ w[r].status = 404

\* C14: for every failed relay RPC the text of the underlying error is
\* what the error response carries.
C14_ErrorTextForwarded ==
    \A r \in RequestIds :
      Done(r) =>
        \A i \in RelayCalls(r) :
          ~calls[r][i].ok =>
            /\ Len(w[r].body) = 1
            /\ w[r].body[1].kind = "json"
            /\ w[r].body[1].err = calls[r][i].err

\* C15: when the relay RPC answers with a wire message X (and X encodes),
\* the response is 200 with the body encode(X), and the relay request
\* carried the room and identity of the auth context, the participant id
\* of the path and the decoded wire message.
C15_RelaySuccess ==
    \A r \in RequestIds :
      Done(r) =>
        \A i \in RelayCalls(r) :
          (/\ calls[r][i].ok
           /\ i + 1 \in CallsOf(r, "proto.Marshal")
           /\ calls[r][i + 1].ok) =>
            /\ w[r].status = 200
            /\ w[r].body = <<Marshal(calls[r][i].resp.wireMessage)>>
            /\ calls[r][i].rscr.request =
                 [room |-> rq[r].auth.room,
                  participantIdentity |-> rq[r].auth.identity,
                  participantId |-> rq[r].participantId,
                  wireMessage |-> Unmarshal(rq[r].body)]

\* C15 witness: a relay for participant PA_2 answered with a fragment has
\* been turned into a 200 response.
C15_Witness ==
    \E r \in RequestIds :
      /\ Done(r)
      /\ rq[r].participantId = "PA_2"
      /\ \E i \in RelayCalls(r) :
           calls[r][i].ok /\ calls[r][i].resp.wireMessage = FragmentMessage("f1")
      /\ w[r].status = 200
      /\ w[r].body # <<>>

AllGatesPass(q) ==
    /\ q.contentType = "application/x-protobuf"
    /\ q.auth.hasClaims /\ q.auth.hasVideo
    /\ q.auth.joinErr = "" /\ q.auth.room # "" /\ q.auth.identity # ""
    /\ q.participantId # ""
    /\ q.readOk /\ UnmarshalOk(q.body)

\* C16: a decoded wire message that passes the gates of the participant
\* endpoint is relayed as it is, whatever its variant: a Fragment, or an
\* Envelope with any client messages, is never refused by the gateway.
C16_RelayAnyVariant ==
    \A r \in RequestIds :
      (Done(r) /\ IsPatch(r) /\ AllGatesPass(rq[r])) =>
        /\ \E i \in RelayCalls(r) :
             calls[r][i].rscr.request.wireMessage = Unmarshal(rq[r].body)
        /\ \E i \in ArrivalsFrom(r) :
             inbox[i].request.wireMessage = Unmarshal(rq[r].body)
        /\ \A i \in JsonChunks(r) :
             w[r].body[i].err # "should not get fragments via HTTP request"

\* C16 witness: the fragment "f2" has been relayed to the hosting node.
C16_Witness ==
    \E r \in RequestIds :
      /\ Done(r)
      /\ IsPatch(r)
      /\ Unmarshal(rq[r].body) = FragmentMessage("f2")
      /\ \E i \in ArrivalsFrom(r) : inbox[i].request.wireMessage = FragmentMessage("f2")

\* C19: on the participant endpoint the RPC and the topic formatter are
\* invoked once when every gate passes and not at all otherwise, and a
\* failed RPC is not made again.
C19_RelayOnceIffGatesPass ==
    \A r \in RequestIds :
      /\ Cardinality(RelayCalls(r)) <= 1
      /\ Cardinality(TopicCalls(r)) <= 1
      /\ (Done(r) /\ IsPatch(r)) =>
           /\ Cardinality(RelayCalls(r)) = IF AllGatesPass(rq[r]) THEN 1 ELSE 0
           /\ Cardinality(TopicCalls(r)) = Cardinality(RelayCalls(r))
           /\ Cardinality(ArrivalsFrom(r)) = Cardinality(RelayCalls(r))

\* C19 witness: a request whose only RPC failed has been answered.
C19_Witness ==
    \E r \in RequestIds :
      /\ Done(r)
      /\ IsPatch(r)
      /\ Cardinality(RelayCalls(r)) = 1
      /\ \E i \in RelayCalls(r) : ~calls[r][i].ok
      /\ w[r].status = 500

(***************************************************************************)
(* Properties of several requests.                                         *)
(***************************************************************************)
RelayCallOf(r) == calls[r][CHOOSE i \in RelayCalls(r) : TRUE]

\* C17: no request changes the fields of the service, and the topic of
\* every relay RPC is the one the topic layer gives for the participant
\* when the call is made, also when the participant was moved after an
\* earlier call.
C17_StatelessRelay ==
    [][/\ svc' = svc
       /\ svc = NewRTCv2Service
       /\ \A r \in DOMAIN pc :
            \A i \in (Len(calls[r]) + 1)..Len(calls'[r]) :
              calls'[r][i].op = "RelaySignalv2Participant" =>
                /\ calls'[r][i].rscr.topic =
                     ParticipantTopic(placement, rq[r].auth.room, rq[r].auth.identity)
                /\ inbox'[Len(inbox')].topic = calls'[r][i].rscr.topic
                /\ i - 1 \in DOMAIN calls'[r]
                /\ i - 1 > Len(calls[r])
                /\ calls'[r][i - 1].op = "ParticipantTopic"
                /\ calls'[r][i - 1].resp = calls'[r][i].rscr.topic]_vars

\* C17 witness: two participant actions of the same participant, the
\* first relayed to node n1 and, after a migration, the second to node n2.
C17_Witness ==
    /\ Len(inbox) = 2
    /\ inbox[1].from # inbox[2].from
    /\ inbox[1].request.room = inbox[2].request.room
    /\ inbox[1].request.participantIdentity = inbox[2].request.participantIdentity
    /\ inbox[1].topic.node = "n1"
    /\ inbox[2].topic.node = "n2"
    /\ \A r \in DOMAIN pc : Done(r)
    /\ svc = NewRTCv2Service

\* C20: the room, the identity and the topic of a relay are those of the
\* auth context of the request, whatever its path and body: two requests
\* with the same auth context that are about to relay address the same
\* topic with the same room and identity.
C20_TopicFromAuthOnly ==
    /\ \A r \in DOMAIN pc :
         \A i \in RelayCalls(r) :
           /\ calls[r][i].rscr.request.room = rq[r].auth.room
           /\ calls[r][i].rscr.request.participantIdentity = rq[r].auth.identity
           /\ calls[r][i].rscr.topic.room = rq[r].auth.room
           /\ calls[r][i].rscr.topic.identity = rq[r].auth.identity
    /\ \A r1, r2 \in DOMAIN pc :
         (/\ pc[r1] = "relay"
          /\ pc[r2] = "relay"
          /\ rq[r1].auth = rq[r2].auth) =>
           /\ ResolveTopic(placement, Locals(r1)) = ResolveTopic(placement, Locals(r2))
           /\ RelayRequest(Locals(r1), rq[r1]).room = RelayRequest(Locals(r2), rq[r2]).room
           /\ RelayRequest(Locals(r1), rq[r1]).participantIdentity =
                RelayRequest(Locals(r2), rq[r2]).participantIdentity

\* C20 witness: two relayed requests with the same auth context, different
\* participant ids and different bodies.
C20_Witness ==
    \E r1, r2 \in DOMAIN pc :
      /\ Done(r1) /\ Done(r2)
      /\ RelayCalls(r1) # {} /\ RelayCalls(r2) # {}
      /\ rq[r1].auth = rq[r2].auth
      /\ rq[r1].participantId # rq[r2].participantId
      /\ rq[r1].body # rq[r2].body
      /\ RelayCallOf(r1).rscr.topic = RelayCallOf(r2).rscr.topic

(***************************************************************************)
(* A request handled alone: the handler run from its first to its last     *)
(* statement on a fresh ResponseWriter, the collaborators answering what   *)
(* the list answers holds, in order.  The result is the response and the   *)
(* arguments of the outbound calls.                                        *)
(***************************************************************************)
Outbound(op, room, identity, rscr) ==
    [op |-> op, room |-> room, identity |-> identity, rscr |-> rscr]

RECURSIVE PostLoopAlone(_, _, _, _, _, _)
PostLoopAlone(cms, i, answers, k, rw, out) ==
    IF i > Len(cms) THEN [w |-> WriteHeader(rw, StatusOK), out |-> out]
    ELSE IF cms[i].type # "ConnectRequest"
    THEN PostLoopAlone(cms, i + 1, answers, k, UnknownMessageResponse(rw, cms[i]), out)
    ELSE LET res == [ok |-> answers[k].ok, code |-> answers[k].code, err |-> answers[k].err,
                     roomName |-> answers[k].room,
                     grants |-> [identity |-> answers[k].identity],
                     createRoomRequest |-> IF answers[k].ok THEN "create" ELSE ""]
             v == validateInternal(res, IF res.ok THEN answers[k + 1].ok ELSE TRUE, cms[i])
             selected == Outbound("SelectRoomNode", v.roomName, "", NoRscr)
             routed == Outbound("HandleParticipantConnectRequest", v.roomName,
                                v.participantIdentity, v.rscr)
         IN  IF v.err # "" THEN [w |-> HandleErrorJson(rw, v.code, v.err), out |-> out]
             ELSE IF ~answers[k + 2].ok
             THEN [w |-> HandleErrorJson(rw, StatusInternalServerError, answers[k + 2].err),
                   out |-> Append(out, selected)]
             ELSE IF ~answers[k + 3].ok
             THEN [w |-> HandleErrorJson(rw, StatusInternalServerError, answers[k + 3].err),
                   out |-> out \o <<selected, routed>>]
             ELSE IF ~answers[k + 4].ok
             THEN [w |-> HandleErrorJson(rw, StatusInternalServerError, errMarshalResponse),
                   out |-> out \o <<selected, routed>>]
             ELSE PostLoopAlone(cms, i + 1, answers, k + 5,
                                Write(AddContentType(rw, cContentType),
                                      Marshal(ConnectResponseMessage(answers[k + 3].resp))),
                                out \o <<selected, routed>>)

handlePostAlone(q, answers) ==
    IF FirstFailing(PostGates(q)) # 0
    THEN LET failed == PostGates(q)[FirstFailing(PostGates(q))]
         IN  [w |-> HandleErrorJson(NewResponseWriter, failed.code, failed.err), out |-> <<>>]
    ELSE CASE Unmarshal(q.body).variant = "Envelope" ->
                PostLoopAlone(Unmarshal(q.body).clientMessages, 1, answers, 1,
                              NewResponseWriter, <<>>)
           [] Unmarshal(q.body).variant = "Fragment" ->
                [w |-> FragmentResponse(NewResponseWriter), out |-> <<>>]
           [] OTHER -> [w |-> WriteHeader(NewResponseWriter, StatusOK), out |-> <<>>]

handleParticipantPatchAlone(q, answers) ==
    IF FirstFailing(PatchGates(q)) # 0
    THEN LET failed == PatchGates(q)[FirstFailing(PatchGates(q))]
         IN  [w |-> HandleErrorJson(NewResponseWriter, failed.code, failed.err), out |-> <<>>]
    ELSE LET l == PatchLocals(q)
             topic == answers[1].resp
             res == answers[2].resp
             request == RelayRequest(l, q)
         IN  [w |-> IF ~res.ok THEN RpcErrorResponse(NewResponseWriter, res)
                    ELSE IF ~answers[3].ok
                    THEN HandleErrorJson(NewResponseWriter, StatusInternalServerError,
                                         errMarshalResponse)
                    ELSE WriteHeader(Write(AddContentType(NewResponseWriter, cContentType),
                                           Marshal(res.wireMessage)),
                                     StatusOK),
              out |-> <<Outbound("ParticipantTopic", l.roomName, l.participantIdentity,
                                 NoRscr),
                        Outbound("RelaySignalv2Participant", request.room,
                                 request.participantIdentity,
                                 [topic |-> topic, request |-> request])>>]

HandledAlone(q, answers) ==
    IF q.endpoint = "POST" THEN handlePostAlone(q, answers)
    ELSE handleParticipantPatchAlone(q, answers)

\* The arguments of the outbound calls a request has made, in order.
OutboundOf(r) ==
    LET made == SelectSeq(calls[r],
                  LAMBDA c : c.op \in {"SelectRoomNode", "HandleParticipantConnectRequest",
                                       "ParticipantTopic", "RelaySignalv2Participant"})
    IN  [i \in DOMAIN made |->
           Outbound(made[i].op, made[i].room, made[i].identity, made[i].rscr)]

\* C18: under every interleaving of two requests, the response of each
\* request and the arguments of its outbound calls are those of the request
\* handled alone with the same answers of the collaborators.
C18_SameAsAlone ==
    \A r \in DOMAIN pc :
      Done(r) =>
        /\ w[r] = HandledAlone(rq[r], calls[r]).w
        /\ OutboundOf(r) = HandledAlone(rq[r], calls[r]).out

\* C18 witness: a participant action has been answered after its RPC
\* reached the hosting node while a connect of the other goroutine is in
\* flight between its placement and router calls.
C18_Witness ==
    /\ DOMAIN pc = {"r1", "r2"}
    /\ pc["r1"] = "route"
    /\ PlacementCalls("r1") # {}
    /\ Done("r2")
    /\ IsPatch("r2")
    /\ RelayCalls("r2") # {}
    /\ w["r2"].status = 200
    /\ Len(inbox) = 1

====
